---- MODULE Spec2Model ----
(***************************************************************************)
(* Model of the Cluster reconciler of atomix/cache-storage                 *)
(* (src/pkg/controller/reconciler.go).                                     *)
(*                                                                         *)
(* The resource store (the Kubernetes API behind client.Client) is the     *)
(* shared state.  One reconciliation is a sequence of store calls; every   *)
(* action below is one store call together with the code that runs up to   *)
(* the next store call, so reconciliations of different Clusters and the    *)
(* environment interleave at the granularity of single store calls.        *)
(***************************************************************************)
EXTENDS Integers, Sequences, FiniteSets, TLC

\* ------------------------------------------------------------------------
\* Bounds of the model
\* ------------------------------------------------------------------------

\* Largest Spec.Partitions of a Cluster in the model.
MaxPartitions == 2

\* ------------------------------------------------------------------------
\* int32 arithmetic (partitionID, clusterID and Spec.Partitions are int32)
\* ------------------------------------------------------------------------

MaxInt32 == 2147483647

MinInt32 == (-MaxInt32) - 1

\* a + b in int32, wrapping around on overflow.
Add32(a, b) ==
    IF a >= 0 /\ b >= 0 /\ a > MaxInt32 - b THEN (a + MinInt32) + (b + MinInt32)
    ELSE IF a < 0 /\ b < 0 /\ a < MinInt32 - b THEN (a - MinInt32) + (b - MinInt32)
    ELSE a + b

\* -a in int32.
Neg32(a) == IF a = MinInt32 THEN MinInt32 ELSE -a

RECURSIVE MulNat32(_, _)
\* a * b in int32 for b >= 0, by doubling; every intermediate value is an int32.
MulNat32(a, b) ==
    IF b = 0 THEN 0
    ELSE LET rest == MulNat32(Add32(a, a), b \div 2)
         IN  IF b % 2 = 1 THEN Add32(a, rest) ELSE rest

\* a * b in int32, wrapping around on overflow.
Mul32(a, b) ==
    IF b >= 0 THEN MulNat32(a, b)
    ELSE IF b = MinInt32 THEN (IF a % 2 = 0 THEN 0 ELSE MinInt32)
    ELSE Neg32(MulNat32(a, -b))

\* The first ordinal without the "+ 1".
FirstPartitionIDOffByOne(parts, clusterID) == Mul32(parts, Add32(clusterID, -1))

\* A loop that starts at ordinal 1 whatever the shard.
FirstPartitionIDOfFirstShard(parts, clusterID) == 1

\* First ordinal of the loop: (cluster.Spec.Partitions * (clusterID - 1)) + 1
FirstPartitionID(parts, clusterID) ==
    Add32(Mul32(parts, Add32(clusterID, -1)), 1)

\* A loop that goes one ordinal beyond the shard.
LastPartitionIDOneMore(parts, clusterID) == Add32(Mul32(parts, clusterID), 1)

\* Last ordinal of the loop: cluster.Spec.Partitions * clusterID
LastPartitionID(parts, clusterID) == Mul32(parts, clusterID)

\* ------------------------------------------------------------------------
\* Annotations and their parsing
\* ------------------------------------------------------------------------

ClusterAnnotation == "cloud.atomix.io/cluster"

\* Strings are sequences of characters.
Digits == <<"0", "1", "2", "3", "4", "5", "6", "7", "8", "9",
            "a", "b", "c", "d", "e", "f">>

\* The value of character ch as a digit, or 99 when it is none.
DigitVal(ch) ==
    IF \E i \in 1..Len(Digits) : Digits[i] = ch
    THEN (CHOOSE i \in 1..Len(Digits) : Digits[i] = ch) - 1
    ELSE 99

RECURSIVE ParseDigits(_, _, _)
\* The digits of s in the given base, most significant first, added to acc;
\* -1 when s holds a character that is no digit of the base or the value
\* leaves the 32-bit range.
ParseDigits(s, base, acc) ==
    IF acc < 0 THEN -1
    ELSE IF s = <<>> THEN acc
    ELSE IF DigitVal(Head(s)) >= base THEN -1
    ELSE IF acc > (MaxInt32 - DigitVal(Head(s))) \div base THEN -1
    ELSE ParseDigits(Tail(s), base, (acc * base) + DigitVal(Head(s)))

\* strconv.ParseInt(s, 0, 32): an optional sign, then a base prefix
\* (0x: 16, 0b: 2, 0o or a leading 0: 8, otherwise 10), then the digits.
ParseInt(s) ==
    LET neg    == s # <<>> /\ Head(s) = "-"
        signed == s # <<>> /\ Head(s) \in {"+", "-"}
        body   == IF signed THEN Tail(s) ELSE s
        pre    == IF Len(body) >= 2 /\ body[1] = "0" THEN body[2] ELSE ""
        base   == IF pre = "x" THEN 16
                  ELSE IF pre = "b" THEN 2
                  ELSE IF pre = "o" THEN 8
                  ELSE IF Len(body) >= 2 /\ body[1] = "0" THEN 8
                  ELSE 10
        digits == IF pre \in {"x", "b", "o"} THEN Tail(Tail(body))
                  ELSE IF base = 8 THEN Tail(body)
                  ELSE body
        mag    == IF digits = <<>> THEN -1 ELSE ParseDigits(digits, base, 0)
    IN  IF mag < 0 THEN [ok |-> FALSE, val |-> 0]
        ELSE [ok |-> TRUE, val |-> IF neg THEN -mag ELSE mag]

\* k8s.GetClusterIDFromClusterAnnotations: the numeric shard identifier of the
\* Cluster; fails when the annotation is absent or not a number.
GetClusterIDFromClusterAnnotations(c) ==
    IF ClusterAnnotation \notin DOMAIN c.annotations
    THEN [ok |-> FALSE, val |-> 0]
    ELSE ParseInt(c.annotations[ClusterAnnotation])

\* The values of the shard annotation in the model: two shards and a value
\* that is no number.
AnnotationValues == {<<"1">>, <<"0", "x", "2">>, <<"x">>}

NoAnnotations == [k \in {} |-> <<>>]

AnnotationMaps ==
    {NoAnnotations} \cup {[k \in {ClusterAnnotation} |-> v] : v \in AnnotationValues}

\* k8s.GetPartitionNamespacedName: the name of the Partition with the given
\* ordinal; Clusters of one database share the names, 0 is the empty name.
GetPartitionNamespacedName(c, partitionID) == partitionID

\* A configuration loop that stops before the last ordinal.
RECURSIVE ConfigPartitionsExclusive(_, _, _)
ConfigPartitionsExclusive(parts, clusterID, partitionID) ==
    IF partitionID < LastPartitionID(parts, clusterID)
    THEN <<partitionID>> \o ConfigPartitionsExclusive(parts, clusterID, Add32(partitionID, 1))
    ELSE <<>>

\* newClusterConfig: the ordinals written into the cluster configuration, or an
\* error when the shard annotation is missing or does not parse.
RECURSIVE ConfigPartitions(_, _, _)
ConfigPartitions(parts, clusterID, partitionID) ==
    IF partitionID <= LastPartitionID(parts, clusterID)
    THEN <<partitionID>> \o ConfigPartitions(parts, clusterID, Add32(partitionID, 1))
    ELSE <<>>

newClusterConfig(c) ==
    IF ClusterAnnotation \notin DOMAIN c.annotations
    THEN [ok |-> FALSE, partitions |-> <<>>]
    ELSE LET id == ParseInt(c.annotations[ClusterAnnotation])
         IN  IF ~id.ok THEN [ok |-> FALSE, partitions |-> <<>>]
             ELSE [ok |-> TRUE,
                   partitions |-> ConfigPartitions(c.partitions, id.val,
                                      FirstPartitionID(c.partitions, id.val))]

\* ------------------------------------------------------------------------
\* State
\* ------------------------------------------------------------------------

\* The names of the Cluster resources (request.NamespacedName).
Names == {"a", "b"}

VARIABLES
    requests,     \* the keys the work queue hands to Reconcile
    clusterObjs,  \* store: name -> Cluster (annotations, Spec.Partitions, Status.ReadyPartitions)
    storageFound, \* store: whether the CacheStorage named by Spec.Storage exists
    configMaps,   \* store: name -> ordinals of the cluster configuration of the ConfigMap
    deployments,  \* store: name -> Deployment status (Replicas, ReadyReplicas)
    services,     \* store: names of the Services
    partitions,   \* store: partition name -> Partition (Status.Ready)
    pc,           \* per request: the store call the reconciliation is at
    cluster,      \* per request: the local Cluster object of Reconcile
    partitionID,  \* per request: the loop variable of reconcileStatus
    partition,    \* per request: the local Partition object of the loop body
    result,       \* per request: what the last Reconcile returned
    calls,        \* per request: the store calls of the current (or last) reconciliation
    hist,         \* per request: position in a pair of back-to-back reconciliations
    rangeArgs,    \* inputs of the range computation (P, C, C2)
    rangeOut,     \* the loop bounds computed for (P, C) and (P, C2)
    store0        \* the store two concurrent reconciliations started from

vars == <<requests, clusterObjs, storageFound, configMaps, deployments, services,
          partitions, pc, cluster, partitionID, partition, result, calls, hist,
          rangeArgs, rangeOut, store0>>

storeVars == <<clusterObjs, storageFound, configMaps, deployments, services, partitions>>

rangeVars == <<rangeArgs, rangeOut>>

\* cluster := &v1beta2.Cluster{}
ZeroCluster == [annotations |-> NoAnnotations, partitions |-> 0, readyPartitions |-> 0]

\* partition := &v1beta2.Partition{}: the empty name, Status.Ready false
ZeroPartition == [name |-> 0, ready |-> FALSE]

\* The ordinals of the shard of Cluster object c, empty without a usable
\* shard annotation.
OwnedOrdinals(c) ==
    LET id == GetClusterIDFromClusterAnnotations(c)
    IN  IF id.ok
        THEN FirstPartitionID(c.partitions, id.val)..LastPartitionID(c.partitions, id.val)
        ELSE {}

\* The partition names of the model: the ordinals of its shards.
PartitionNames ==
    UNION {OwnedOrdinals([annotations |-> a, partitions |-> p, readyPartitions |-> 0]) :
           a \in AnnotationMaps, p \in 1..MaxPartitions}

NoRange == [lo1 |-> 0, hi1 |-> 0, lo2 |-> 0, hi2 |-> 0, done |-> FALSE]

NoRangeArgs == [P |-> 0, C |-> 0, C2 |-> 0]

\* The store as one value.
CurStore ==
    [clusterObjs |-> clusterObjs, storageFound |-> storageFound, configMaps |-> configMaps,
     deployments |-> deployments, services |-> services, partitions |-> partitions]

\* store0 where no starting store is kept.
NoStore == [clusterObjs |-> <<>>, storageFound |-> FALSE, configMaps |-> <<>>,
            deployments |-> <<>>, services |-> {}, partitions |-> <<>>]

\* hist of a request is the pair of the outcome of the reconciliation before
\* the current (or last) one and the state of the current (or last) one, each
\* "none" unless no one else changed the store since that reconciliation began.
NoHist == [prev |-> "none", cur |-> "none"]

\* The reconciler's part of the initial state: nothing has run.
InitReconciler ==
    /\ pc = [n \in Names |-> "idle"]
    /\ cluster = [n \in Names |-> ZeroCluster]
    /\ partitionID = [n \in Names |-> 0]
    /\ partition = [n \in Names |-> ZeroPartition]
    /\ result = [n \in Names |-> [err |-> "none", requeue |-> FALSE]]
    /\ calls = [n \in Names |-> <<>>]
    /\ hist = [n \in Names |-> NoHist]

\* A store with the Clusters of `names`, each freshly created (no partition
\* ready yet), possibly with a ConfigMap of its name already there.
InitStore(names) ==
    /\ clusterObjs \in [names -> {[annotations |-> a, partitions |-> p, readyPartitions |-> 0] :
                                     a \in AnnotationMaps, p \in 1..MaxPartitions}]
    /\ storageFound \in BOOLEAN
    /\ configMaps \in {[n \in s |-> <<>>] : s \in SUBSET names}
    /\ deployments = [n \in {} |-> 0]
    /\ services = {}
    /\ partitions = [p \in {} |-> 0]

\* One Cluster "a" (or none at all), reconciled by requests for "a".
Init ==
    /\ requests = {"a"}
    /\ \E names \in {{}, {"a"}} : InitStore(names)
    /\ InitReconciler
    /\ rangeArgs = NoRangeArgs
    /\ rangeOut = NoRange
    /\ store0 = NoStore

\* ------------------------------------------------------------------------
\* Store calls
\* ------------------------------------------------------------------------

\* What a client.Get may return: the object or NotFound, or a transient error.
GetErrs(found) == IF found THEN {"nil", "Transient"} ELSE {"NotFound", "Transient"}

\* What a client.Create may return.
CreateErrs(found) == IF found THEN {"AlreadyExists", "Transient"} ELSE {"nil", "Transient"}

\* What a client.Status().Update may return: an object with the empty name is
\* rejected, an object that is not in the store is NotFound.
UpdateErrs(named, found) ==
    IF ~named THEN {"Invalid"}
    ELSE IF found THEN {"nil", "Transient"}
    ELSE {"NotFound", "Transient"}

\* The record of one store call in calls: the function it was made in, the
\* operation, the kind and key of the object, the error it returned and the
\* value read or written (a sequence of numbers).
Call(fn, op, kind, key, err, val) ==
    [fn |-> fn, op |-> op, kind |-> kind, key |-> key, err |-> err, val |-> val]

IsWrite(c) == c.op \in {"Create", "UpdateStatus"}

\* hist of a request that finishes a reconciliation with error err.
HistAfter(h, err) ==
    IF h.cur = "none" THEN h
    ELSE [h EXCEPT !.cur = IF err = "nil" THEN "ok" ELSE "err"]

\* hist of a request that starts a reconciliation.
HistStart(h) ==
    [prev |-> IF h.cur \in {"ok", "err"} THEN h.cur ELSE "none", cur |-> "running"]

\* The next hist: request n made a store call (wrote: it changed the store,
\* which ends every other request's pair) and, if finished, returned err.
HistNext(n, wrote, finished, err) ==
    [m \in Names |->
        IF m = n THEN (IF finished THEN HistAfter(hist[n], err) ELSE hist[n])
        ELSE IF wrote THEN NoHist
        ELSE hist[m]]

\* A lookup none of whose errors is returned.
IgnoreEveryError(err) == "nil"

\* A lookup whose NotFound is returned like any other error.
ReturnNotFound(err) == err

\* The error returned after a failed lookup of the Cluster, of the CacheStorage
\* or of the Deployment of the status pass: nil when it is NotFound.
IgnoreNotFound(err) == IF err = "NotFound" THEN "nil" ELSE err

\* A get-or-create that also adds the object its lookup found.
ShouldAddWhenFound(err) == err \in {"nil", "NotFound"}

\* Whether reconcileConfigMap, reconcileDeployment or reconcileService goes on
\* to add the object: err != nil && k8serrors.IsNotFound(err)
ShouldAdd(err) == err # "nil" /\ err = "NotFound"

\* Reconcile of request n returns err; its locals go out of scope.
Return(n, err, requeue) ==
    /\ pc' = [pc EXCEPT ![n] = "done"]
    /\ result' = [result EXCEPT ![n] = [err |-> err, requeue |-> requeue]]
    /\ cluster' = [cluster EXCEPT ![n] = ZeroCluster]
    /\ partitionID' = [partitionID EXCEPT ![n] = 0]
    /\ partition' = [partition EXCEPT ![n] = ZeroPartition]

\* Reconcile of request n goes on to the store call at `next`.
Goto(n, next) ==
    /\ pc' = [pc EXCEPT ![n] = next]
    /\ UNCHANGED result

Log(n, c) == calls' = [calls EXCEPT ![n] = Append(@, c)]

\* ------------------------------------------------------------------------
\* Reconcile
\* ------------------------------------------------------------------------

\* Reconcile, the Cluster lookup: NotFound ends the reconciliation silently,
\* another error is returned with Requeue.
Reconcile(n) ==
    /\ n \in requests
    /\ pc[n] \in {"idle", "done"}
    /\ \E err \in GetErrs(n \in DOMAIN clusterObjs) :
        /\ calls' = [calls EXCEPT ![n] =
              <<Call("Reconcile", "Get", "Cluster", 0, err,
                     IF err = "nil"
                     THEN <<clusterObjs[n].partitions, clusterObjs[n].readyPartitions>>
                     ELSE <<>>)>>]
        /\ IF err = "nil"
           THEN /\ pc' = [pc EXCEPT ![n] = "getStorage"]
                /\ result' = [result EXCEPT ![n] = [err |-> "none", requeue |-> FALSE]]
                /\ cluster' = [cluster EXCEPT ![n] = clusterObjs[n]]
                /\ hist' = [hist EXCEPT ![n] = HistStart(@)]
                /\ UNCHANGED <<partitionID, partition>>
           ELSE /\ Return(n, IgnoreNotFound(err), err # "NotFound")
                /\ hist' = [hist EXCEPT ![n] =
                      HistAfter(HistStart(@), IgnoreNotFound(err))]
    /\ UNCHANGED <<requests, store0, storeVars, rangeVars>>

\* Reconcile, the CacheStorage lookup.
GetStorage(n) ==
    /\ pc[n] = "getStorage"
    /\ \E err \in GetErrs(storageFound) :
        /\ Log(n, Call("Reconcile", "Get", "CacheStorage", 0, err, <<>>))
        /\ IF err = "nil"
           THEN /\ Goto(n, "getConfigMap")
                /\ hist' = HistNext(n, FALSE, FALSE, "nil")
                /\ UNCHANGED <<cluster, partitionID, partition>>
           ELSE /\ Return(n, IgnoreNotFound(err), err # "NotFound")
                /\ hist' = HistNext(n, FALSE, TRUE, IgnoreNotFound(err))
    /\ UNCHANGED <<requests, store0, storeVars, rangeVars>>

\* reconcileConfigMap: the lookup; on NotFound addConfigMap builds the cluster
\* configuration, which fails without a usable shard annotation.
ReconcileConfigMap(n) ==
    /\ pc[n] = "getConfigMap"
    /\ \E err \in GetErrs(n \in DOMAIN configMaps) :
        /\ Log(n, Call("reconcileConfigMap", "Get", "ConfigMap", 0, err, <<>>))
        /\ IF ShouldAdd(err) /\ newClusterConfig(cluster[n]).ok
           THEN /\ Goto(n, "createConfigMap")
                /\ hist' = HistNext(n, FALSE, FALSE, "nil")
                /\ UNCHANGED <<cluster, partitionID, partition>>
           ELSE IF err = "nil"
           THEN /\ Goto(n, "getDeployment")
                /\ hist' = HistNext(n, FALSE, FALSE, "nil")
                /\ UNCHANGED <<cluster, partitionID, partition>>
           ELSE LET e == IF ShouldAdd(err) THEN "Configuration" ELSE err
                IN  /\ Return(n, e, FALSE)
                    /\ hist' = HistNext(n, FALSE, TRUE, e)
    /\ UNCHANGED <<requests, store0, storeVars, rangeVars>>

\* addConfigMap: the Create of the ConfigMap holding the cluster configuration.
AddConfigMap(n) ==
    /\ pc[n] = "createConfigMap"
    /\ \E err \in CreateErrs(n \in DOMAIN configMaps) :
        LET data == newClusterConfig(cluster[n]).partitions
        IN  /\ Log(n, Call("addConfigMap", "Create", "ConfigMap", 0, err, data))
            /\ IF err = "nil"
               THEN /\ configMaps' = [m \in DOMAIN configMaps \cup {n} |->
                                         IF m = n THEN data ELSE configMaps[m]]
                    /\ Goto(n, "getDeployment")
                    /\ hist' = HistNext(n, TRUE, FALSE, "nil")
                    /\ UNCHANGED <<cluster, partitionID, partition>>
               ELSE /\ Return(n, err, FALSE)
                    /\ hist' = HistNext(n, FALSE, TRUE, err)
                    /\ UNCHANGED configMaps
    /\ UNCHANGED <<requests, store0, clusterObjs, storageFound, deployments, services,
                   partitions, rangeVars>>

\* reconcileDeployment: the lookup; NotFound leads to addDeployment.
ReconcileDeployment(n) ==
    /\ pc[n] = "getDeployment"
    /\ \E err \in GetErrs(n \in DOMAIN deployments) :
        /\ Log(n, Call("reconcileDeployment", "Get", "Deployment", 0, err, <<>>))
        /\ IF ShouldAdd(err)
           THEN /\ Goto(n, "createDeployment")
                /\ hist' = HistNext(n, FALSE, FALSE, "nil")
                /\ UNCHANGED <<cluster, partitionID, partition>>
           ELSE IF err = "nil"
           THEN /\ Goto(n, "getService")
                /\ hist' = HistNext(n, FALSE, FALSE, "nil")
                /\ UNCHANGED <<cluster, partitionID, partition>>
           ELSE /\ Return(n, err, FALSE)
                /\ hist' = HistNext(n, FALSE, TRUE, err)
    /\ UNCHANGED <<requests, store0, storeVars, rangeVars>>

\* addDeployment: the Create of a Deployment with an empty status.
AddDeployment(n) ==
    /\ pc[n] = "createDeployment"
    /\ \E err \in CreateErrs(n \in DOMAIN deployments) :
        /\ Log(n, Call("addDeployment", "Create", "Deployment", 0, err, <<0, 0>>))
        /\ IF err = "nil"
           THEN /\ deployments' = [m \in DOMAIN deployments \cup {n} |->
                                      IF m = n THEN [replicas |-> 0, readyReplicas |-> 0]
                                      ELSE deployments[m]]
                /\ Goto(n, "getService")
                /\ hist' = HistNext(n, TRUE, FALSE, "nil")
                /\ UNCHANGED <<cluster, partitionID, partition>>
           ELSE /\ Return(n, err, FALSE)
                /\ hist' = HistNext(n, FALSE, TRUE, err)
                /\ UNCHANGED deployments
    /\ UNCHANGED <<requests, store0, clusterObjs, storageFound, configMaps, services,
                   partitions, rangeVars>>

\* reconcileService: the lookup; NotFound leads to addService.
ReconcileService(n) ==
    /\ pc[n] = "getService"
    /\ \E err \in GetErrs(n \in services) :
        /\ Log(n, Call("reconcileService", "Get", "Service", 0, err, <<>>))
        /\ IF ShouldAdd(err)
           THEN /\ Goto(n, "createService")
                /\ hist' = HistNext(n, FALSE, FALSE, "nil")
                /\ UNCHANGED <<cluster, partitionID, partition>>
           ELSE IF err = "nil"
           THEN /\ Goto(n, "getStatusDeployment")
                /\ hist' = HistNext(n, FALSE, FALSE, "nil")
                /\ UNCHANGED <<cluster, partitionID, partition>>
           ELSE /\ Return(n, err, FALSE)
                /\ hist' = HistNext(n, FALSE, TRUE, err)
    /\ UNCHANGED <<requests, store0, storeVars, rangeVars>>

\* addService: the Create of the Service.
AddService(n) ==
    /\ pc[n] = "createService"
    /\ \E err \in CreateErrs(n \in services) :
        /\ Log(n, Call("addService", "Create", "Service", 0, err, <<>>))
        /\ IF err = "nil"
           THEN /\ services' = services \cup {n}
                /\ Goto(n, "getStatusDeployment")
                /\ hist' = HistNext(n, TRUE, FALSE, "nil")
                /\ UNCHANGED <<cluster, partitionID, partition>>
           ELSE /\ Return(n, err, FALSE)
                /\ hist' = HistNext(n, FALSE, TRUE, err)
                /\ UNCHANGED services
    /\ UNCHANGED <<requests, store0, clusterObjs, storageFound, configMaps, deployments,
                   partitions, rangeVars>>

\* ------------------------------------------------------------------------
\* reconcileStatus
\* ------------------------------------------------------------------------

\* The condition without the comparison of ReadyPartitions to Spec.Partitions.
StatusPassProceedsAnyCount(c, dep) == dep.readyReplicas = dep.replicas

\* The condition without the comparison of ReadyReplicas to Replicas.
StatusPassProceedsAnyReplicas(c, dep) == c.readyPartitions < c.partitions

\* The condition with "differs from" in place of "less than".
StatusPassProceedsUnequal(c, dep) ==
    /\ c.readyPartitions # c.partitions
    /\ dep.readyReplicas = dep.replicas

\* A status pass that waits for a Deployment with at least one replica.
StatusPassProceedsNonZero(c, dep) ==
    /\ c.readyPartitions < c.partitions
    /\ dep.readyReplicas = dep.replicas
    /\ dep.replicas > 0

\* The condition under which the status pass runs.
StatusPassProceeds(c, dep) ==
    /\ c.readyPartitions < c.partitions
    /\ dep.readyReplicas = dep.replicas

\* A lookup whose errors are all ignored.
LookupNeverAborts(err) == FALSE

\* Whether the error of a Partition lookup ends the pass: NotFound does not.
LookupAborts(err) == err # "nil" /\ ~(err = "NotFound")

\* A loop body that skips the Partition that was not found.
MarkReadySkipMissing(p) ==
    IF p.name # 0 /\ ~p.ready
    THEN [update |-> TRUE, obj |-> [p EXCEPT !.ready = TRUE]]
    ELSE [update |-> FALSE, obj |-> p]

\* A loop body that writes every Partition, ready or not.
MarkReadyAlways(p) == [update |-> TRUE, obj |-> [p EXCEPT !.ready = TRUE]]

\* A loop body that flips Status.Ready and always writes.
MarkReadyToggle(p) == [update |-> TRUE, obj |-> [p EXCEPT !.ready = ~p.ready]]

\* The loop body after the lookup: a Partition that is not ready is set ready
\* and is to be written; p is the local object, zero-valued after a NotFound.
MarkReady(p) ==
    IF ~p.ready
    THEN [update |-> TRUE, obj |-> [p EXCEPT !.ready = TRUE]]
    ELSE [update |-> FALSE, obj |-> p]

\* A status update whose error is ignored.
UpdateNeverAborts(err) == FALSE

\* Whether the error of a Partition status update ends the pass.
UpdateAborts(err) == err # "nil"

\* A Cluster status update that writes the status as it was read.
NewClusterStatusAsRead(c) == c

\* The Cluster object that is written once the loop is through.
NewClusterStatus(c) == [c EXCEPT !.readyPartitions = c.partitions]

\* The loop condition, evaluated with ordinal id by request n: the next store
\* call is the lookup of Partition id, or the Cluster status update.
LoopTo(n, id) ==
    /\ partitionID' = [partitionID EXCEPT ![n] = id]
    /\ IF id <= LastPartitionID(cluster[n].partitions,
                                GetClusterIDFromClusterAnnotations(cluster[n]).val)
       THEN Goto(n, "getPartition")
       ELSE Goto(n, "updateCluster")

\* reconcileStatus up to the loop: the Deployment lookup, the condition of the
\* pass and the shard identifier.
ReconcileStatus(n) ==
    /\ pc[n] = "getStatusDeployment"
    /\ \E err \in GetErrs(n \in DOMAIN deployments) :
        /\ Log(n, Call("reconcileStatus", "Get", "Deployment", 0, err,
                       IF err = "nil"
                       THEN <<deployments[n].replicas, deployments[n].readyReplicas>>
                       ELSE <<>>))
        /\ IF err # "nil"
           THEN LET e == IgnoreNotFound(err)
                IN  /\ Return(n, e, FALSE)
                    /\ hist' = HistNext(n, FALSE, TRUE, e)
           ELSE IF ~StatusPassProceeds(cluster[n], deployments[n])
           THEN /\ Return(n, "nil", FALSE)
                /\ hist' = HistNext(n, FALSE, TRUE, "nil")
           ELSE LET id == GetClusterIDFromClusterAnnotations(cluster[n])
                IN  IF ~id.ok
                    THEN /\ Return(n, "Configuration", FALSE)
                         /\ hist' = HistNext(n, FALSE, TRUE, "Configuration")
                    ELSE /\ LoopTo(n, FirstPartitionID(cluster[n].partitions, id.val))
                         /\ hist' = HistNext(n, FALSE, FALSE, "nil")
                         /\ UNCHANGED <<cluster, partition>>
    /\ UNCHANGED <<requests, store0, storeVars, rangeVars>>

\* The loop body up to the status update: the lookup of the Partition with the
\* ordinal partitionID into a fresh local object, and the readiness test.
GetPartition(n) ==
    /\ pc[n] = "getPartition"
    /\ LET name == GetPartitionNamespacedName(cluster[n], partitionID[n])
       IN \E err \in GetErrs(name \in DOMAIN partitions) :
            LET got == IF err = "nil"
                       THEN [name |-> name, ready |-> partitions[name].ready]
                       ELSE ZeroPartition
            IN  /\ Log(n, Call("reconcileStatus", "Get", "Partition", name, err,
                               IF err = "nil"
                               THEN <<IF got.ready THEN 1 ELSE 0>>
                               ELSE <<>>))
                /\ IF LookupAborts(err)
                   THEN /\ Return(n, err, FALSE)
                        /\ hist' = HistNext(n, FALSE, TRUE, err)
                   ELSE IF MarkReady(got).update
                   THEN /\ partition' = [partition EXCEPT ![n] = MarkReady(got).obj]
                        /\ Goto(n, "updatePartition")
                        /\ hist' = HistNext(n, FALSE, FALSE, "nil")
                        /\ UNCHANGED <<cluster, partitionID>>
                   ELSE /\ partition' = [partition EXCEPT ![n] = MarkReady(got).obj]
                        /\ LoopTo(n, Add32(partitionID[n], 1))
                        /\ hist' = HistNext(n, FALSE, FALSE, "nil")
                        /\ UNCHANGED cluster
    /\ UNCHANGED <<requests, store0, storeVars, rangeVars>>

\* The status update of the local Partition object, then the next ordinal.
UpdatePartitionStatus(n) ==
    /\ pc[n] = "updatePartition"
    /\ LET obj == partition[n]
       IN \E err \in UpdateErrs(obj.name # 0, obj.name \in DOMAIN partitions) :
            /\ Log(n, Call("reconcileStatus", "UpdateStatus", "Partition", obj.name, err,
                           <<IF obj.ready THEN 1 ELSE 0>>))
            /\ partitions' = IF err = "nil"
                             THEN [partitions EXCEPT ![obj.name] = [ready |-> obj.ready]]
                             ELSE partitions
            /\ IF UpdateAborts(err)
               THEN /\ Return(n, err, FALSE)
                    /\ hist' = HistNext(n, err = "nil", TRUE, err)
               ELSE /\ LoopTo(n, Add32(partitionID[n], 1))
                    /\ hist' = HistNext(n, err = "nil", FALSE, "nil")
                    /\ UNCHANGED <<cluster, partition>>
    /\ UNCHANGED <<requests, store0, clusterObjs, storageFound, configMaps, deployments,
                   services, rangeVars>>

\* The status update of the Cluster, which ends reconcileStatus and Reconcile.
UpdateClusterStatus(n) ==
    /\ pc[n] = "updateCluster"
    /\ LET obj == NewClusterStatus(cluster[n])
       IN \E err \in UpdateErrs(TRUE, n \in DOMAIN clusterObjs) :
            /\ Log(n, Call("reconcileStatus", "UpdateStatus", "Cluster", 0, err,
                           <<obj.readyPartitions>>))
            /\ clusterObjs' = IF err = "nil"
                              THEN [clusterObjs EXCEPT
                                       ![n].readyPartitions = obj.readyPartitions]
                              ELSE clusterObjs
            /\ Return(n, err, FALSE)
            /\ hist' = HistNext(n, err = "nil", TRUE, err)
    /\ UNCHANGED <<requests, store0, storageFound, configMaps, deployments, services,
                   partitions, rangeVars>>

\* ------------------------------------------------------------------------
\* The environment of the reconciler
\* ------------------------------------------------------------------------

\* The Deployment statuses the deployment controller reports.
DeploymentStatuses ==
    {[replicas |-> 0, readyReplicas |-> 0],
     [replicas |-> 1, readyReplicas |-> 0],
     [replicas |-> 1, readyReplicas |-> 1]}

\* Any change of the store by the environment ends every pair of
\* back-to-back reconciliations.
Disturb ==
    /\ hist' = [m \in Names |-> NoHist]
    /\ UNCHANGED <<requests, store0, pc, cluster, partitionID, partition, result, calls, rangeVars>>

\* The deployment controller reports a new status of Deployment n.
SetDeploymentStatus(n) ==
    /\ n \in DOMAIN deployments
    /\ \E st \in DeploymentStatuses \ {deployments[n]} :
          deployments' = [deployments EXCEPT ![n] = st]
    /\ Disturb
    /\ UNCHANGED <<clusterObjs, storageFound, configMaps, services, partitions>>

\* Deployment n is deleted.
DeleteDeployment(n) ==
    /\ n \in DOMAIN deployments
    /\ deployments' = [m \in DOMAIN deployments \ {n} |-> deployments[m]]
    /\ Disturb
    /\ UNCHANGED <<clusterObjs, storageFound, configMaps, services, partitions>>

\* The Partition with name p, of the shard of a Cluster of the store, is
\* created, not ready.
CreatePartition(p) ==
    /\ p \notin DOMAIN partitions
    /\ \E n \in DOMAIN clusterObjs : p \in OwnedOrdinals(clusterObjs[n])
    /\ partitions' = [q \in DOMAIN partitions \cup {p} |->
                         IF q = p THEN [ready |-> FALSE] ELSE partitions[q]]
    /\ Disturb
    /\ UNCHANGED <<clusterObjs, storageFound, configMaps, deployments, services>>

\* Spec.Partitions of Cluster n is edited.
EditClusterSpec(n) ==
    /\ n \in DOMAIN clusterObjs
    /\ \E p \in (1..MaxPartitions) \ {clusterObjs[n].partitions} :
          clusterObjs' = [clusterObjs EXCEPT ![n].partitions = p]
    /\ Disturb
    /\ UNCHANGED <<storageFound, configMaps, deployments, services, partitions>>

\* ------------------------------------------------------------------------
\* Specification
\* ------------------------------------------------------------------------

Next ==
    \/ \E n \in Names : Reconcile(n)
    \/ \E n \in Names : GetStorage(n)
    \/ \E n \in Names : ReconcileConfigMap(n)
    \/ \E n \in Names : AddConfigMap(n)
    \/ \E n \in Names : ReconcileDeployment(n)
    \/ \E n \in Names : AddDeployment(n)
    \/ \E n \in Names : ReconcileService(n)
    \/ \E n \in Names : AddService(n)
    \/ \E n \in Names : ReconcileStatus(n)
    \/ \E n \in Names : GetPartition(n)
    \/ \E n \in Names : UpdatePartitionStatus(n)
    \/ \E n \in Names : UpdateClusterStatus(n)
    \/ \E n \in Names : SetDeploymentStatus(n)
    \/ \E n \in Names : DeleteDeployment(n)
    \/ \E p \in PartitionNames : CreatePartition(p)

Spec == Init /\ [][Next]_vars

\* The reconciler in an environment that also edits Spec.Partitions.
NextEdit ==
    \/ Next
    \/ \E n \in Names : EditClusterSpec(n)

\* The Clusters of the initial store are of the first shard or without a
\* shard: the ordinals of the first shard stay the same ones as Spec.Partitions
\* grows, which keeps the store of Partitions small.
InitEdit ==
    /\ Init
    /\ \A n \in DOMAIN clusterObjs :
           GetClusterIDFromClusterAnnotations(clusterObjs[n]).ok =>
               GetClusterIDFromClusterAnnotations(clusterObjs[n]).val = 1

SpecEdit == InitEdit /\ [][NextEdit]_vars

\* ------------------------------------------------------------------------
\* The range computation on its own, over inputs that reach the int32 limits
\* ------------------------------------------------------------------------

RangeP == {1, 2, 3, 65536, MaxInt32}

RangeC == {1, 2, 3, 32768, 65536, MaxInt32}

InitRange ==
    /\ requests = {}
    /\ InitStore({})
    /\ InitReconciler
    /\ rangeArgs \in [P : RangeP, C : RangeC, C2 : RangeC]
    /\ rangeOut = NoRange
    /\ store0 = NoStore

\* The bounds of the loop over the owned ordinals for (P, C) and for (P, C2).
ComputeRange ==
    /\ ~rangeOut.done
    /\ rangeOut' = [lo1 |-> FirstPartitionID(rangeArgs.P, rangeArgs.C),
                    hi1 |-> LastPartitionID(rangeArgs.P, rangeArgs.C),
                    lo2 |-> FirstPartitionID(rangeArgs.P, rangeArgs.C2),
                    hi2 |-> LastPartitionID(rangeArgs.P, rangeArgs.C2),
                    done |-> TRUE]
    /\ UNCHANGED <<requests, store0, storeVars, pc, cluster, partitionID, partition, result,
                   calls, hist, rangeArgs>>

NextRange == ComputeRange

SpecRange == InitRange /\ [][NextRange]_vars

\* ------------------------------------------------------------------------
\* Two Clusters
\* ------------------------------------------------------------------------

\* Two Clusters "a" and "b" with the same Spec.Partitions, of the shards 1 and
\* 2, each reconciled once; any of the Partitions of the two shards exist, none
\* is ready.
InitPair ==
    /\ requests = {"a", "b"}
    /\ \E p \in 1..MaxPartitions :
          /\ clusterObjs =
                [n \in {"a", "b"} |->
                    [annotations |-> [k \in {ClusterAnnotation} |->
                                         IF n = "a" THEN <<"1">> ELSE <<"0", "x", "2">>],
                     partitions |-> p, readyPartitions |-> 0]]
          /\ \E s \in SUBSET (1..(2 * p)) : partitions = [o \in s |-> [ready |-> FALSE]]
    /\ storageFound = TRUE
    /\ configMaps \in {[n \in s |-> <<>>] : s \in SUBSET {"a", "b"}}
    /\ deployments = [n \in {} |-> 0]
    /\ services = {}
    /\ InitReconciler
    /\ rangeArgs = NoRangeArgs
    /\ rangeOut = NoRange
    /\ store0 = CurStore

\* The two reconciliations, their store calls interleaved in any way.
NextPair ==
    \/ \E n \in Names : pc[n] = "idle" /\ Reconcile(n)
    \/ \E n \in Names : GetStorage(n)
    \/ \E n \in Names : ReconcileConfigMap(n)
    \/ \E n \in Names : AddConfigMap(n)
    \/ \E n \in Names : ReconcileDeployment(n)
    \/ \E n \in Names : AddDeployment(n)
    \/ \E n \in Names : ReconcileService(n)
    \/ \E n \in Names : AddService(n)
    \/ \E n \in Names : ReconcileStatus(n)
    \/ \E n \in Names : GetPartition(n)
    \/ \E n \in Names : UpdatePartitionStatus(n)
    \/ \E n \in Names : UpdateClusterStatus(n)

SpecPair == InitPair /\ [][NextPair]_vars

\* ------------------------------------------------------------------------
\* Reconciliation again and again
\* ------------------------------------------------------------------------

\* The next store call of request n, whichever it is.
Step(n) ==
    \/ Reconcile(n)
    \/ GetStorage(n)
    \/ ReconcileConfigMap(n)
    \/ AddConfigMap(n)
    \/ ReconcileDeployment(n)
    \/ AddDeployment(n)
    \/ ReconcileService(n)
    \/ AddService(n)
    \/ ReconcileStatus(n)
    \/ GetPartition(n)
    \/ UpdatePartitionStatus(n)
    \/ UpdateClusterStatus(n)

\* A store call that returns a transient error.
TransientStep ==
    \E n \in Names : Step(n) /\ calls'[n][Len(calls'[n])].err = "Transient"

\* A store call that writes (or tries to).
WriteStep ==
    \E n \in Names : Step(n) /\ IsWrite(calls'[n][Len(calls'[n])])

\* The deployment controller reports a new status of Deployment n in which
\* every replica is ready.
SetDeploymentReady(n) ==
    /\ SetDeploymentStatus(n)
    /\ deployments'[n].readyReplicas = deployments'[n].replicas

\* Cluster "a" of shard 2, its CacheStorage and every Partition of its shard
\* there, none ready; the Deployment is still to be created.
InitLive ==
    /\ requests = {"a"}
    /\ clusterObjs \in [{"a"} -> {[annotations |->
                                        [k \in {ClusterAnnotation} |-> <<"0", "x", "2">>],
                                    partitions |-> p, readyPartitions |-> 0] :
                                      p \in 1..MaxPartitions}]
    /\ storageFound = TRUE
    /\ configMaps \in {[n \in s |-> <<>>] : s \in SUBSET {"a"}}
    /\ deployments = [n \in {} |-> 0]
    /\ services = {}
    /\ partitions = [o \in OwnedOrdinals(clusterObjs["a"]) |-> [ready |-> FALSE]]
    /\ InitReconciler
    /\ rangeArgs = NoRangeArgs
    /\ rangeOut = NoRange
    /\ store0 = NoStore

NextLive ==
    \/ \E n \in Names : Step(n)
    \/ \E n \in Names : SetDeploymentReady(n)

\* Cluster "a" is reconciled again and again, every reconciliation is carried
\* through, and from some time on no store call returns a transient error.
SpecLive ==
    /\ InitLive
    /\ [][NextLive]_vars
    /\ \A n \in Names : WF_vars(Step(n))
    /\ <>[][~TransientStep]_vars

\* ------------------------------------------------------------------------
\* Partition counts up to the int32 range
\* ------------------------------------------------------------------------

\* A partition count and a shard annotation whose product is 2^31.
WidePartitions == 65536

WideAnnotation == <<"3", "2", "7", "6", "8">>

\* Cluster "a" of shard 1 or 2 with a few Partitions, or of shard 32768 with
\* 65536 of them; its CacheStorage and every Partition of its shard are there,
\* none ready.
InitWide ==
    /\ requests = {"a"}
    /\ clusterObjs \in
          [{"a"} -> {[annotations |-> [k \in {ClusterAnnotation} |-> v],
                      partitions |-> p, readyPartitions |-> 0] :
                        v \in {<<"1">>, <<"0", "x", "2">>}, p \in 1..MaxPartitions}
                    \cup {[annotations |-> [k \in {ClusterAnnotation} |-> WideAnnotation],
                           partitions |-> WidePartitions, readyPartitions |-> 0]}]
    /\ storageFound = TRUE
    /\ configMaps \in {[n \in s |-> <<>>] : s \in SUBSET {"a"}}
    /\ deployments = [n \in {} |-> 0]
    /\ services = {}
    /\ partitions = [o \in OwnedOrdinals(clusterObjs["a"]) |-> [ready |-> FALSE]]
    /\ InitReconciler
    /\ rangeArgs = NoRangeArgs
    /\ rangeOut = NoRange
    /\ store0 = NoStore

NextWide == \E n \in Names : Step(n)

SpecWide == InitWide /\ [][NextWide]_vars

\* ------------------------------------------------------------------------
\* Properties
\* ------------------------------------------------------------------------

CallIdx(n) == 1..Len(calls[n])

IsPartitionGet(c) == c.kind = "Partition" /\ c.op = "Get"

IsPartitionUpdate(c) == c.kind = "Partition" /\ c.op = "UpdateStatus"

IsClusterUpdate(c) == c.kind = "Cluster" /\ c.op = "UpdateStatus"

\* A Partition lookup or status update of the reconciliation of n returned an error.
PartitionCallFailed(n) ==
    \E i \in CallIdx(n) : calls[n][i].kind = "Partition" /\ calls[n][i].err # "nil"

\* C1: a status pass in which a Partition lookup or a Partition status update
\* returned an error issues no Cluster status update.
C1_ClusterUpdateOnlyAfterCleanLoop ==
    \A n \in Names :
        PartitionCallFailed(n) => ~(\E i \in CallIdx(n) : IsClusterUpdate(calls[n][i]))

\* A pass that updated one Partition, then failed on the next one, which did
\* not exist, and ended.
C1_Witness ==
    \E n \in Names :
        /\ pc[n] = "done"
        /\ Len(calls[n]) >= 2
        /\ IsPartitionUpdate(calls[n][Len(calls[n])])
        /\ calls[n][Len(calls[n])].err = "Invalid"
        /\ \E i \in CallIdx(n) : IsPartitionUpdate(calls[n][i]) /\ calls[n][i].err = "nil"

C3_NotFoundIsSkipped ==
    \A n \in Names : \A i \in CallIdx(n) :
        (IsPartitionGet(calls[n][i]) /\ calls[n][i].err = "NotFound") =>
            /\ i < Len(calls[n]) => ~IsPartitionUpdate(calls[n][i + 1])
            /\ (i = Len(calls[n]) /\ pc[n] = "done") => result[n].err = "nil"

NoWrites(n) == \A i \in CallIdx(n) : ~IsWrite(calls[n][i])

\* C4 (as amended): in a reconciliation that follows a reconciliation of the
\* same Cluster that returned no error, with no other change of the store
\* since the start of the first, no write is issued.
C4_SecondRunAfterSuccessWritesNothing ==
    \A n \in Names : hist[n].prev = "ok" => NoWrites(n)

\* C4 (as claimed): the second of two back-to-back reconciliations issues no
\* write, whatever the first returned.
C4_SecondRunWritesNothing ==
    \A n \in Names : hist[n].prev \in {"ok", "err"} => NoWrites(n)

\* The second reconciliation has ended, the first having advanced the Cluster
\* to its Spec.Partitions.
C4_Witness ==
    \E n \in DOMAIN clusterObjs :
        /\ hist[n] = [prev |-> "ok", cur |-> "ok"]
        /\ pc[n] = "done"
        /\ calls[n][Len(calls[n])].fn = "reconcileStatus"
        /\ clusterObjs[n].readyPartitions = clusterObjs[n].partitions

\* The status pass of n read a Deployment whose ReadyReplicas differs from Replicas.
SawUnreadyDeployment(n) ==
    \E i \in CallIdx(n) :
        /\ calls[n][i].fn = "reconcileStatus"
        /\ calls[n][i].kind = "Deployment"
        /\ calls[n][i].err = "nil"
        /\ calls[n][i].val[1] # calls[n][i].val[2]

\* C5: a status pass that finds ReadyReplicas different from Replicas issues no
\* status update, of a Partition or of the Cluster.
C5_UnreadyDeploymentNoStatusWrite ==
    \A n \in Names :
        SawUnreadyDeployment(n) =>
            \A i \in CallIdx(n) : calls[n][i].op # "UpdateStatus"

\* Such a pass ended, with the Cluster behind its Spec.Partitions and a
\* Partition of its shard in the store that is not ready.
C5_Witness ==
    \E n \in DOMAIN clusterObjs :
        /\ pc[n] = "done"
        /\ SawUnreadyDeployment(n)
        /\ clusterObjs[n].readyPartitions < clusterObjs[n].partitions
        /\ \E o \in OwnedOrdinals(clusterObjs[n]) :
               o \in DOMAIN partitions /\ ~partitions[o].ready

\* C6: a reconciliation of a Cluster without shard annotation that got past the
\* Cluster and storage lookups and met no transient error ends with a
\* configuration error and has issued no write.
C6_NoAnnotationNoWrite ==
    \A n \in DOMAIN clusterObjs :
        ( /\ ClusterAnnotation \notin DOMAIN clusterObjs[n].annotations
          /\ pc[n] = "done"
          /\ Len(calls[n]) >= 3
          /\ \A i \in CallIdx(n) : calls[n][i].err \in {"nil", "NotFound"} )
        => (result[n].err = "Configuration" /\ NoWrites(n))

\* P * C does not leave the int32 range.
Fits32(P, C) == C <= MaxInt32 \div P

\* The interval lo..hi has exactly cnt elements (cnt >= 1).
HasExactly(lo, hi, cnt) ==
    /\ lo <= hi
    /\ IF lo < 0 /\ hi >= 0 THEN hi - (cnt - 1) = lo ELSE hi - lo = cnt - 1

Disjoint(lo1, hi1, lo2, hi2) == lo1 > hi1 \/ lo2 > hi2 \/ hi1 < lo2 \/ hi2 < lo1

\* C7 (as amended): for P >= 1 and shard IDs C, C2 >= 1 whose products P*C and
\* P*C2 fit in an int32, the loop bounds delimit exactly P ordinals, the
\* ranges of two different shard IDs are disjoint, and P = 3, C = 2 gives 4..6.
C7_RangeWithinInt32 ==
    (rangeOut.done /\ Fits32(rangeArgs.P, rangeArgs.C) /\ Fits32(rangeArgs.P, rangeArgs.C2)) =>
        /\ HasExactly(rangeOut.lo1, rangeOut.hi1, rangeArgs.P)
        /\ rangeArgs.C # rangeArgs.C2 =>
               Disjoint(rangeOut.lo1, rangeOut.hi1, rangeOut.lo2, rangeOut.hi2)
        /\ (rangeArgs.P = 3 /\ rangeArgs.C = 2) => (rangeOut.lo1 = 4 /\ rangeOut.hi1 = 6)

\* C7 (as claimed): the same for all P >= 1 and C, C2 >= 1 of the int32 range.
C7_RangeAnyInt32 ==
    rangeOut.done =>
        /\ HasExactly(rangeOut.lo1, rangeOut.hi1, rangeArgs.P)
        /\ rangeArgs.C # rangeArgs.C2 =>
               Disjoint(rangeOut.lo1, rangeOut.hi1, rangeOut.lo2, rangeOut.hi2)
        /\ (rangeArgs.P = 3 /\ rangeArgs.C = 2) => (rangeOut.lo1 = 4 /\ rangeOut.hi1 = 6)

\* The ranges of shards 2 and 3 of three Partitions each have been computed.
C7_Witness ==
    /\ rangeOut.done
    /\ rangeArgs = [P |-> 3, C |-> 2, C2 |-> 3]
    /\ rangeOut.lo2 = 7

\* C8: a Partition that is ready in the store is ready in every later state.
C8_ReadyStaysReady ==
    [][\A o \in DOMAIN partitions :
          partitions[o].ready => (o \in DOMAIN partitions' /\ partitions'[o].ready)]_vars

\* A later reconciliation has looked up a Partition it found ready already.
C8_Witness ==
    \E n \in Names : \E i \in CallIdx(n) :
        /\ IsPartitionGet(calls[n][i])
        /\ calls[n][i].err = "nil"
        /\ calls[n][i].val = <<1>>

\* C9: the stored ReadyPartitions of a Cluster never decreases.
C9_ReadyPartitionsNeverDecreases ==
    [][\A n \in DOMAIN clusterObjs :
          /\ n \in DOMAIN clusterObjs'
          /\ clusterObjs'[n].readyPartitions >= clusterObjs[n].readyPartitions]_vars

\* A reconciliation has read a Cluster whose ReadyPartitions exceeds its
\* Spec.Partitions, and got to the status pass.
C9_Witness ==
    \E n \in Names :
        /\ Len(calls[n]) >= 1
        /\ calls[n][1].err = "nil"
        /\ calls[n][1].val[2] > calls[n][1].val[1]
        /\ \E i \in CallIdx(n) : calls[n][i].fn = "reconcileStatus"

\* The call of a Partition returned an error that ends the pass.
AbortsPass(c) ==
    /\ c.kind = "Partition"
    /\ c.err # "nil"
    /\ ~(c.op = "Get" /\ c.err = "NotFound")

\* C10: the first Partition call whose error ends the pass is the last store
\* call of the reconciliation, which returns that error; the Partitions the
\* pass updated before it are ready in the store.
C10_AbortWithoutRollback ==
    \A n \in Names : \A i \in CallIdx(n) :
        AbortsPass(calls[n][i]) =>
            /\ i = Len(calls[n])
            /\ pc[n] = "done"
            /\ result[n].err = calls[n][i].err
            /\ \A j \in 1..(i - 1) :
                   (IsPartitionUpdate(calls[n][j]) /\ calls[n][j].err = "nil") =>
                       /\ calls[n][j].key \in DOMAIN partitions
                       /\ partitions[calls[n][j].key].ready

\* A pass updated a Partition and was then ended by a transient lookup error.
C10_Witness ==
    \E n \in Names :
        /\ pc[n] = "done"
        /\ Len(calls[n]) >= 2
        /\ IsPartitionGet(calls[n][Len(calls[n])])
        /\ calls[n][Len(calls[n])].err = "Transient"
        /\ IsPartitionUpdate(calls[n][Len(calls[n]) - 1])
        /\ calls[n][Len(calls[n]) - 1].err = "nil"

\* The Cluster update calls of the reconciliation of n.
ClusterUpdates(n) == {i \in CallIdx(n) : IsClusterUpdate(calls[n][i])}

\* The reconciliation of n read its Cluster behind Spec.Partitions and, in the
\* status pass, a Deployment with ReadyReplicas = Replicas.
PassProceeded(n) ==
    /\ Len(calls[n]) >= 1
    /\ calls[n][1].err = "nil"
    /\ calls[n][1].val[2] < calls[n][1].val[1]
    /\ \E i \in CallIdx(n) :
          /\ calls[n][i].fn = "reconcileStatus"
          /\ calls[n][i].kind = "Deployment"
          /\ calls[n][i].err = "nil"
          /\ calls[n][i].val[1] = calls[n][i].val[2]

\* The pass of n looked up every ordinal of the shard (P, C) and found a
\* Partition that was ready.
AllOwnedFoundReady(n, P, C) ==
    \A o \in ((P * (C - 1)) + 1)..(P * C) :
        \E i \in CallIdx(n) :
            /\ IsPartitionGet(calls[n][i])
            /\ calls[n][i].key = o
            /\ calls[n][i].err = "nil"
            /\ calls[n][i].val = <<1>>

\* C11: a status pass that proceeds (Deployment available, ReadyPartitions
\* below Spec.Partitions, usable shard annotation) and finds every owned
\* Partition in the store and ready issues no Partition status update and
\* exactly one Cluster status update, which writes ReadyPartitions =
\* Spec.Partitions; when the store accepts it that is the stored value.
C11_AllReadyAdvancesCluster ==
    \A n \in DOMAIN clusterObjs :
        LET id == GetClusterIDFromClusterAnnotations(clusterObjs[n])
        IN  ( /\ pc[n] = "done"
              /\ PassProceeded(n)
              /\ id.ok
              /\ AllOwnedFoundReady(n, calls[n][1].val[1], id.val) )
            => /\ \A i \in CallIdx(n) : ~IsPartitionUpdate(calls[n][i])
               /\ Cardinality(ClusterUpdates(n)) = 1
               /\ \A i \in ClusterUpdates(n) :
                     /\ calls[n][i].val = <<calls[n][1].val[1]>>
                     /\ calls[n][i].err = "nil" =>
                            clusterObjs[n].readyPartitions = clusterObjs[n].partitions

\* Such a pass over a shard of two Partitions has ended and advanced the Cluster.
C11_Witness ==
    \E n \in DOMAIN clusterObjs :
        /\ pc[n] = "done"
        /\ PassProceeded(n)
        /\ GetClusterIDFromClusterAnnotations(clusterObjs[n]).ok
        /\ calls[n][1].val[1] = 2
        /\ AllOwnedFoundReady(n, 2, GetClusterIDFromClusterAnnotations(clusterObjs[n]).val)
        /\ clusterObjs[n].readyPartitions = 2

\* The lookups whose NotFound ends the reconciliation silently.
IsSilentLookup(c) ==
    /\ c.op = "Get"
    /\ \/ c.kind \in {"Cluster", "CacheStorage"}
       \/ c.kind = "Deployment" /\ c.fn = "reconcileStatus"

\* C12: a NotFound of the Cluster lookup, of the storage lookup or of the
\* Deployment lookup of the status pass is the last store call of the
\* reconciliation, which returns no error (and no requeue).
C12_NotFoundIsSilentNoOp ==
    \A n \in Names : \A i \in CallIdx(n) :
        (IsSilentLookup(calls[n][i]) /\ calls[n][i].err = "NotFound") =>
            /\ i = Len(calls[n])
            /\ pc[n] = "done"
            /\ result[n] = [err |-> "nil", requeue |-> FALSE]

\* A reconciliation created the Deployment, found it gone in the status pass
\* and ended.
C12_Witness ==
    \E n \in Names :
        /\ pc[n] = "done"
        /\ Len(calls[n]) >= 1
        /\ calls[n][Len(calls[n])].fn = "reconcileStatus"
        /\ calls[n][Len(calls[n])].kind = "Deployment"
        /\ calls[n][Len(calls[n])].err = "NotFound"
        /\ \E i \in CallIdx(n) : calls[n][i].op = "Create" /\ calls[n][i].kind = "Deployment"

\* The position of the function a store call is made in among the steps of
\* Reconcile: its own lookups, then ConfigMap, Deployment, Service and status.
StepOf(fn) ==
    CASE fn = "Reconcile" -> 0
      [] fn \in {"reconcileConfigMap", "addConfigMap"} -> 1
      [] fn \in {"reconcileDeployment", "addDeployment"} -> 2
      [] fn \in {"reconcileService", "addService"} -> 3
      [] fn = "reconcileStatus" -> 4

\* C13: the store calls of a reconciliation come step by step in the order
\* ConfigMap, Deployment, Service, status, no step being left out before a later
\* one; a call that returned a transient error is the last call of the
\* reconciliation (nothing is retried, no later step calls the store), and that
\* error is what Reconcile returns.
C13_StepsInOrderAbortOnError ==
    \A n \in Names :
        /\ \A i \in CallIdx(n) : \A j \in CallIdx(n) :
              i < j => StepOf(calls[n][i].fn) <= StepOf(calls[n][j].fn)
        /\ \A j \in CallIdx(n) : \A k \in 1..(StepOf(calls[n][j].fn) - 1) :
              \E i \in 1..j : StepOf(calls[n][i].fn) = k
        /\ \A i \in CallIdx(n) :
              calls[n][i].err = "Transient" =>
                  /\ i = Len(calls[n])
                  /\ pc[n] = "done"
                  /\ result[n].err = "Transient"

\* A reconciliation created the ConfigMap and the Deployment and was ended by a
\* transient error of the Service step.
C13_Witness ==
    \E n \in Names :
        /\ pc[n] = "done"
        /\ Len(calls[n]) >= 1
        /\ StepOf(calls[n][Len(calls[n])].fn) = 3
        /\ calls[n][Len(calls[n])].err = "Transient"
        /\ result[n].err = "Transient"
        /\ \E i \in CallIdx(n) : calls[n][i].op = "Create" /\ calls[n][i].kind = "ConfigMap"
        /\ \E i \in CallIdx(n) : calls[n][i].op = "Create" /\ calls[n][i].kind = "Deployment"

\* The index of the status pass's successful Deployment lookup, 0 if there is none.
StatusLookup(n) ==
    LET found == {i \in CallIdx(n) :
                     /\ calls[n][i].fn = "reconcileStatus"
                     /\ calls[n][i].kind = "Deployment"
                     /\ calls[n][i].err = "nil"}
    IN  IF found = {} THEN 0 ELSE CHOOSE i \in found : TRUE

\* No store call of the reconciliation failed, a lookup's NotFound of an object
\* that is then created apart.
NoCallFailed(n) ==
    \A i \in CallIdx(n) :
        \/ calls[n][i].err = "nil"
        \/ /\ calls[n][i].err = "NotFound"
           /\ calls[n][i].op = "Get"
           /\ calls[n][i].kind \in {"ConfigMap", "Deployment", "Service"}
           /\ calls[n][i].fn # "reconcileStatus"

\* C14: a finished reconciliation whose status pass found the Deployment went
\* on past the lookup only if ReadyPartitions < Spec.Partitions and
\* ReadyReplicas = Replicas, and with a valid annotation it did go on when both
\* hold; a Deployment with Replicas = ReadyReplicas = 0 counts as ready: with a
\* valid annotation, every owned Partition present and no store call failing,
\* every owned Partition is ready in the store and the Cluster update wrote
\* ReadyPartitions = Spec.Partitions.
C14_EmptyDeploymentCountsAsReady ==
    \A n \in Names :
        (pc[n] = "done" /\ StatusLookup(n) # 0) =>
            LET i == StatusLookup(n)
                P == calls[n][1].val[1]
                ready == calls[n][1].val[2]
                dep == calls[n][i].val
                id == GetClusterIDFromClusterAnnotations(clusterObjs[n])
                holds == ready < P /\ dep[1] = dep[2]
            IN  /\ i < Len(calls[n]) => holds
                /\ (holds /\ id.ok) => i < Len(calls[n])
                /\ (holds /\ id.ok /\ dep = <<0, 0>> /\ NoCallFailed(n)) =>
                      /\ \A o \in ((P * (id.val - 1)) + 1)..(P * id.val) :
                            /\ o \in DOMAIN partitions
                            /\ partitions[o].ready
                      /\ \E j \in CallIdx(n) :
                            /\ IsClusterUpdate(calls[n][j])
                            /\ calls[n][j].val = <<P>>
                      /\ clusterObjs[n].readyPartitions = P

\* A reconciliation created the Deployment with its empty status, found it with
\* 0 of 0 replicas ready in its status pass, marked a Partition ready and
\* advanced the Cluster.
C14_Witness ==
    \E n \in Names :
        /\ pc[n] = "done"
        /\ result[n].err = "nil"
        /\ StatusLookup(n) # 0
        /\ calls[n][StatusLookup(n)].val = <<0, 0>>
        /\ \E i \in CallIdx(n) : calls[n][i].op = "Create" /\ calls[n][i].kind = "Deployment"
        /\ \E i \in CallIdx(n) : IsPartitionUpdate(calls[n][i]) /\ calls[n][i].err = "nil"
        /\ \E i \in CallIdx(n) : IsClusterUpdate(calls[n][i]) /\ calls[n][i].err = "nil"
        /\ clusterObjs[n].readyPartitions = clusterObjs[n].partitions

\* Whether what store call c of request n returned (its error, and for a
\* lookup the value read) is what the call returns when the store is st.
CallFits(st, n, c) ==
    CASE c.op = "Get" /\ c.kind = "Cluster" ->
            /\ c.err \in GetErrs(n \in DOMAIN st.clusterObjs)
            /\ c.err = "nil" =>
                  c.val = <<st.clusterObjs[n].partitions, st.clusterObjs[n].readyPartitions>>
      [] c.op = "Get" /\ c.kind = "CacheStorage" -> c.err \in GetErrs(st.storageFound)
      [] c.op = "Get" /\ c.kind = "ConfigMap" -> c.err \in GetErrs(n \in DOMAIN st.configMaps)
      [] c.op = "Get" /\ c.kind = "Deployment" ->
            /\ c.err \in GetErrs(n \in DOMAIN st.deployments)
            /\ (c.err = "nil" /\ c.val # <<>>) =>
                  c.val = <<st.deployments[n].replicas, st.deployments[n].readyReplicas>>
      [] c.op = "Get" /\ c.kind = "Service" -> c.err \in GetErrs(n \in st.services)
      [] c.op = "Get" /\ c.kind = "Partition" ->
            /\ c.err \in GetErrs(c.key \in DOMAIN st.partitions)
            /\ c.err = "nil" => c.val = <<IF st.partitions[c.key].ready THEN 1 ELSE 0>>
      [] c.op = "Create" /\ c.kind = "ConfigMap" ->
            c.err \in CreateErrs(n \in DOMAIN st.configMaps)
      [] c.op = "Create" /\ c.kind = "Deployment" ->
            c.err \in CreateErrs(n \in DOMAIN st.deployments)
      [] c.op = "Create" /\ c.kind = "Service" -> c.err \in CreateErrs(n \in st.services)
      [] c.op = "UpdateStatus" /\ c.kind = "Partition" ->
            c.err \in UpdateErrs(c.key # 0, c.key \in DOMAIN st.partitions)
      [] c.op = "UpdateStatus" /\ c.kind = "Cluster" ->
            c.err \in UpdateErrs(TRUE, n \in DOMAIN st.clusterObjs)

\* The store after store call c of request n, made when the store was st.
ApplyCall(st, n, c) ==
    IF c.err # "nil" \/ c.op = "Get" THEN st
    ELSE CASE c.op = "Create" /\ c.kind = "ConfigMap" ->
                 [st EXCEPT !.configMaps =
                     [m \in DOMAIN st.configMaps \cup {n} |->
                         IF m = n THEN c.val ELSE st.configMaps[m]]]
           [] c.op = "Create" /\ c.kind = "Deployment" ->
                 [st EXCEPT !.deployments =
                     [m \in DOMAIN st.deployments \cup {n} |->
                         IF m = n THEN [replicas |-> c.val[1], readyReplicas |-> c.val[2]]
                         ELSE st.deployments[m]]]
           [] c.op = "Create" /\ c.kind = "Service" ->
                 [st EXCEPT !.services = st.services \cup {n}]
           [] c.op = "UpdateStatus" /\ c.kind = "Partition" ->
                 [st EXCEPT !.partitions[c.key] = [ready |-> c.val[1] = 1]]
           [] c.op = "UpdateStatus" /\ c.kind = "Cluster" ->
                 [st EXCEPT !.clusterObjs[n].readyPartitions = c.val[1]]

\* The store calls log of request n made one after the other from store st on,
\* nothing else touching the store: whether each returns what it did, and the
\* store they leave.
RECURSIVE Replay(_, _, _)
Replay(st, n, log) ==
    IF log = <<>> THEN [ok |-> TRUE, store |-> st]
    ELSE IF ~CallFits(st, n, Head(log)) THEN [ok |-> FALSE, store |-> st]
    ELSE Replay(ApplyCall(st, n, Head(log)), n, Tail(log))

\* What the two reconciliations did so far is what they do when `first` runs
\* alone and `second` after it: the reconciler's steps follow from what its
\* store calls return, every call returns in that run what it returned, and the
\* store is left as it is now.
SerialRun(first, second) ==
    LET r1 == Replay(store0, first, calls[first])
        r2 == Replay(r1.store, second, calls[second])
    IN  r1.ok /\ r2.ok /\ r2.store = CurStore

\* The names of the Partitions whose status request n updated.
PartitionsWritten(n) ==
    {calls[n][i].key : i \in {j \in CallIdx(n) :
                                 IsPartitionUpdate(calls[n][j]) /\ calls[n][j].err = "nil"}}

OwnedKinds == {"ConfigMap", "Deployment", "Service"}

\* The indices of the Create calls of kind k in the log of request n.
Creates(n, k) ==
    {i \in CallIdx(n) : calls[n][i].op = "Create" /\ calls[n][i].kind = k}

\* C16: get-or-create. In the log of a reconciliation a Create of a ConfigMap,
\* Deployment or Service comes right after the lookup of that object returned
\* NotFound, there is at most one Create of each kind, no other write to an
\* object of these kinds, and no Create of an object whose lookup found it;
\* when a reconciliation that got past the Cluster and CacheStorage lookups has
\* returned nil, and no one else changed the store since it began, the ConfigMap,
\* the Deployment and the Service of the Cluster's name are in the store.
C16_GetOrCreate ==
    \A n \in Names :
        /\ \A k \in OwnedKinds :
              /\ \A i \in Creates(n, k) :
                    /\ i > 1
                    /\ calls[n][i - 1].op = "Get"
                    /\ calls[n][i - 1].kind = k
                    /\ calls[n][i - 1].err = "NotFound"
              /\ \A i \in Creates(n, k) : \A j \in Creates(n, k) : i = j
              /\ \A i \in CallIdx(n) :
                    (calls[n][i].kind = k /\ IsWrite(calls[n][i])) => calls[n][i].op = "Create"
              /\ (\E i \in CallIdx(n) :
                     /\ calls[n][i].op = "Get"
                     /\ calls[n][i].kind = k
                     /\ calls[n][i].err = "nil"
                     /\ StepOf(calls[n][i].fn) \in 1..3) => Creates(n, k) = {}
        /\ (/\ pc[n] = "done"
            /\ hist[n].cur = "ok"
            /\ Len(calls[n]) >= 2
            /\ calls[n][2].err = "nil") =>
                  /\ n \in DOMAIN configMaps
                  /\ n \in DOMAIN deployments
                  /\ n \in services

\* A reconciliation that returned nil found the ConfigMap and created the
\* Deployment and the Service.
C16_Witness ==
    \E n \in Names :
        /\ pc[n] = "done"
        /\ hist[n].cur = "ok"
        /\ Creates(n, "ConfigMap") = {}
        /\ Creates(n, "Deployment") # {}
        /\ Creates(n, "Service") # {}
        /\ n \in DOMAIN configMaps /\ n \in DOMAIN deployments /\ n \in services

\* Every Partition of the shard of Cluster n is ready and the Cluster's
\* Status.ReadyPartitions is Spec.Partitions.
Converged(n) ==
    /\ n \in DOMAIN clusterObjs
    /\ \A o \in OwnedOrdinals(clusterObjs[n]) :
          o \in DOMAIN partitions /\ partitions[o].ready
    /\ clusterObjs[n].readyPartitions = clusterObjs[n].partitions

\* C17: with a usable shard annotation, every owned Partition there, the
\* Deployment always with every replica ready, the Cluster reconciled again and
\* again and store calls in the end succeeding, every owned Partition is
\* eventually ready with ReadyPartitions = Spec.Partitions, for good, and once
\* that is so no reconciliation makes a write.
C17_EventuallyReadyThenQuiet ==
    /\ <>[]Converged("a")
    /\ [][Converged("a") => ~WriteStep]_vars

\* The Cluster is ready with all its Partitions, after a reconciliation that
\* advanced it a further one has run through without a write.
C17_Witness ==
    /\ Converged("a")
    /\ clusterObjs["a"].partitions = 2
    /\ pc["a"] = "done"
    /\ hist["a"] = [prev |-> "ok", cur |-> "ok"]
    /\ NoWrites("a")
    /\ \E o \in DOMAIN partitions : o > 2

\* The range [(P*(C-1))+1, P*C] of Cluster n of the store, empty without a
\* usable shard annotation.
ShardRange(n) ==
    LET id == GetClusterIDFromClusterAnnotations(clusterObjs[n])
        P == clusterObjs[n].partitions
    IN  IF id.ok THEN ((P * (id.val - 1)) + 1)..(P * id.val) ELSE {}

\* What the status passes so far have written: Partitions of the own range
\* only, none twice in a pass, and the Cluster at most once in a pass.
WritesWithinShard ==
    \A n \in DOMAIN clusterObjs :
        /\ PartitionsWritten(n) \subseteq ShardRange(n)
        /\ \A i \in CallIdx(n) : \A j \in CallIdx(n) :
              (/\ IsPartitionUpdate(calls[n][i])
               /\ IsPartitionUpdate(calls[n][j])
               /\ calls[n][i].key = calls[n][j].key) => i = j
        /\ \A i \in ClusterUpdates(n) : \A j \in ClusterUpdates(n) : i = j

\* A store call of request n leaves every Cluster but n and every Partition
\* outside the range of n as it was, creates and deletes none, and changes
\* nothing of Cluster n but Status.ReadyPartitions.
StepWithinShard ==
    \A n \in DOMAIN clusterObjs :
        calls'[n] # calls[n] =>
            /\ DOMAIN clusterObjs' = DOMAIN clusterObjs
            /\ \A m \in DOMAIN clusterObjs \ {n} : clusterObjs'[m] = clusterObjs[m]
            /\ clusterObjs'[n] = [clusterObjs[n] EXCEPT
                                      !.readyPartitions = clusterObjs'[n].readyPartitions]
            /\ DOMAIN partitions' = DOMAIN partitions
            /\ \A o \in DOMAIN partitions \ ShardRange(n) : partitions'[o] = partitions[o]

IsRangeSeq(s, P, C) ==
    /\ Len(s) = P
    /\ \A i \in 1..Len(s) : s[i] - i = P * (C - 1)

\* The ordinals of the Partitions the status pass of request n looked up, in
\* the order of the lookups.
Visited(n) ==
    LET gets == SelectSeq(calls[n], IsPartitionGet)
    IN  [i \in 1..Len(gets) |-> gets[i].key]

\* The ordinals newClusterConfig wrote and the ordinals the status pass went
\* through are the P ordinals of the shard of Cluster n with shard ID C.
ConfigAndPassAre(n, P, C) ==
    /\ \A i \in Creates(n, "ConfigMap") : IsRangeSeq(calls[n][i].val, P, C)
    /\ ClusterUpdates(n) # {} =>
          /\ IsRangeSeq(Visited(n), P, C)
          /\ \A o \in DOMAIN partitions :
                (o > P * (C - 1) /\ o - (P * (C - 1)) <= P) => partitions[o].ready

\* C19 (as amended): when P*C fits in an int32, the ordinals written into the
\* ConfigMap are the P ordinals (P*(C-1))+1 .. P*C in ascending order, and a
\* status pass that got to the Cluster update looked up exactly these, in that
\* order, and left each ready; whatever P and C, the list newClusterConfig
\* builds for the Cluster is the list of the ordinals such a pass looked up.
C19_ConfigMatchesPassWithinInt32 ==
    \A n \in DOMAIN clusterObjs :
        LET id == GetClusterIDFromClusterAnnotations(clusterObjs[n])
            P == clusterObjs[n].partitions
        IN  /\ (id.ok /\ Fits32(P, id.val)) => ConfigAndPassAre(n, P, id.val)
            /\ ClusterUpdates(n) # {} =>
                  newClusterConfig(clusterObjs[n]).partitions = Visited(n)

\* C19 (as claimed): the same for every P and C.
C19_ConfigMatchesPass ==
    \A n \in DOMAIN clusterObjs :
        LET id == GetClusterIDFromClusterAnnotations(clusterObjs[n])
            P == clusterObjs[n].partitions
        IN  /\ id.ok => ConfigAndPassAre(n, P, id.val)
            /\ ClusterUpdates(n) # {} =>
                  newClusterConfig(clusterObjs[n]).partitions = Visited(n)

\* One reconciliation of a Cluster of shard 2 with two Partitions wrote the
\* ordinals 3 and 4 into the ConfigMap and went through the Partitions 3 and 4
\* up to the Cluster update.
C19_Witness ==
    \E n \in DOMAIN clusterObjs :
        /\ pc[n] = "done"
        /\ \E i \in Creates(n, "ConfigMap") :
              calls[n][i].err = "nil" /\ calls[n][i].val = <<3, 4>>
        /\ Visited(n) = <<3, 4>>
        /\ PartitionsWritten(n) = {3, 4}
        /\ \E i \in ClusterUpdates(n) : calls[n][i].err = "nil"

====
